---- MODULE Spec2Model ----
(***************************************************************************)
(* Model of src/main.py: a Telegram bot that records additions, removals   *)
(* and openings of card stock in a spreadsheet (worksheets "Inventory" and *)
(* "Logs") behind a one-time-passcode gate.                                *)
(*                                                                         *)
(* One action per registered handler (src/main.py:212-219).  The handlers  *)
(* are coroutines that call the blocking spreadsheet client, and the       *)
(* application dispatches one update at a time, so each handler is one     *)
(* atomic step.  Texts the code inspects character by character            *)
(* (str.strip, int) are sequences of one-character strings.                *)
(***************************************************************************)
EXTENDS Integers, Sequences, FiniteSets, TLC

VARIABLES
    AUTHORIZED_USERS,  \* src/main.py:47, the module-level set of user ids
    inv,               \* rows of worksheet "Inventory" below the header row
    log,               \* rows of worksheet "Logs" below the header row
    today,             \* the local civil date datetime.now(SG_TIME) yields
    upd,               \* the update the last handler was dispatched for
    reply,             \* what the last handler sent to the chat, in order
    eff,               \* how the last handler ended and which writes it made
    nops,              \* number of add/minus/open commands that got past parsing
    flow               \* per user, how far the menu selections made so far go
                       \* along action kind, product, stock type

vars == <<AUTHORIZED_USERS, inv, log, today, upd, reply, eff, nops, flow>>

----------------------------------------------------------------------------
(* Bounds of the model.                                                    *)

MaxOps == 2        \* add/minus/open commands past parsing, per behaviour
MaxDay == 2        \* midnights that pass, per behaviour

Users == {"u1", "u2"}

----------------------------------------------------------------------------
(* Text.                                                                   *)

OTP_CODE == <<"P", "P", "L", "a", "o", "B", "a", "n">>

Whitespace == {" ", "\t", "\n"}
Digits     == {"0", "1", "2", "3", "4", "5", "6", "7", "8", "9"}

DigitVal(c) ==
    CASE c = "0" -> 0 [] c = "1" -> 1 [] c = "2" -> 2 [] c = "3" -> 3
      [] c = "4" -> 4 [] c = "5" -> 5 [] c = "6" -> 6 [] c = "7" -> 7
      [] c = "8" -> 8 [] c = "9" -> 9

RECURSIVE LStrip(_)
LStrip(s) ==
    IF s # <<>> /\ Head(s) \in Whitespace THEN LStrip(Tail(s)) ELSE s

RECURSIVE RStrip(_)
RStrip(s) ==
    IF s # <<>> /\ s[Len(s)] \in Whitespace
    THEN RStrip(SubSeq(s, 1, Len(s) - 1))
    ELSE s

\* str.strip(): leading and trailing whitespace removed
Strip(s) == RStrip(LStrip(s))

RECURSIVE DigitsValue(_)
DigitsValue(s) ==
    IF s = <<>> THEN 0
    ELSE 10 * DigitsValue(SubSeq(s, 1, Len(s) - 1)) + DigitVal(s[Len(s)])

NoUnderscores(s) == SelectSeq(s, LAMBDA c : c # "_")

\* the digit part of an integer literal: digits, single underscores between them
IsDigitPart(s) ==
    /\ s # <<>>
    /\ \A i \in 1..Len(s) : s[i] \in Digits \cup {"_"}
    /\ s[1] \in Digits
    /\ s[Len(s)] \in Digits
    /\ \A i \in 1..(Len(s) - 1) : ~(s[i] = "_" /\ s[i + 1] = "_")

Unsigned(s) == IF s # <<>> /\ Head(s) \in {"+", "-"} THEN Tail(s) ELSE s

\* int(text) succeeds: optional whitespace, optional sign, digit part
IsInt(t) == IsDigitPart(Unsigned(Strip(t)))

\* int(text), where IsInt(text)
IntOf(t) ==
    LET s == Strip(t)
        v == DigitsValue(NoUnderscores(Unsigned(s)))
    IN  IF Head(s) = "-" THEN 0 - v ELSE v

----------------------------------------------------------------------------
(* Updates the chat platform can deliver.                                  *)

\* the stock types the usage messages name (src/main.py:144)
STOCK_TYPES == {"Loose", "Keep Sealed", "Bag of 50"}

\* str.split() of a stock type: context.args holds the words of the message
\* after the command, split on whitespace
Words(st) ==
    CASE st = "Loose"       -> <<"Loose">>
      [] st = "Keep Sealed" -> <<"Keep", "Sealed">>
      [] st = "Bag of 50"   -> <<"Bag", "of", "50">>

\* ' '.join(words): a text without leading, trailing or double blanks is
\* written as the sequence of its words
Join(words) == words

\* context.args of "/cmd product qty stock type": the words after the command
ArgsOf(p, q, st) == <<p, q>> \o Words(st)

\* argument lists of the store commands: nothing, no qty, a qty that is no
\* integer, no stock type, a negative qty, a stock type of two words, a note
StoreArgs ==
    { <<>>,
      <<"A">>,
      <<"A", <<"x">>>>,
      <<"A", <<"2">>>>,
      ArgsOf("A", <<"-", "1">>, "Loose"),
      ArgsOf("A", <<"2">>, "Keep Sealed"),
      ArgsOf("A", <<"2">>, "Loose") \o <<"gift">> }

\* argument lists of the runs about the gate and about failing sheets
FewArgs == { <<>>, ArgsOf("A", <<"2">>, "Loose") }

\* str.lower() on the first argument of /stock
Lower(w) == IF w \in {"all", "ALL", "All"} THEN "all" ELSE w

StockArgs == { <<>>, <<"ALL">>, <<"A">>, <<"C">> }

\* free texts: the passcode, the passcode between blanks, the passcode in
\* lower case, an integer
Texts == { OTP_CODE,
           <<" ">> \o OTP_CODE \o <<"\n">>,
           <<"p", "p", "l", "a", "o", "b", "a", "n">>,
           <<"2">> }

\* callback data: the five buttons of the menu and two values no button of
\* this menu carries, standing for a product and a stock type button
CallbackData == {"menu_add", "menu_minus", "menu_open", "menu_stock",
                 "menu_report", "product_A", "type_Loose"}

\* update.effective_user.username
Username(u) == u

\* the sheets whose calls raise during one handler
Faults == SUBSET {"inv", "log"}

----------------------------------------------------------------------------
(* The two worksheets.                                                     *)

Row(p, st, q) == [product |-> p, stock_type |-> st, quantity |-> q]

\* a slip of the scan: the rows of the product, whatever their stock type
MatchingProduct(rows, p, st) ==
    { i \in 1..Len(rows) : rows[i].product = p }

\* the rows a scan in sheet order matches
Matching(rows, p, st) ==
    { i \in 1..Len(rows) : rows[i].product = p /\ rows[i].stock_type = st }

Min(S) == CHOOSE x \in S : \A y \in S : x <= y

\* a slip of the update: a row appended without looking for the key
UpdatedRowsAppended(rows, p, st, delta) == Append(rows, Row(p, st, delta))

\* a slip of the update: the new quantity floored at zero
UpdatedRowsFloored(rows, p, st, delta) ==
    IF Matching(rows, p, st) # {}
    THEN [rows EXCEPT ![Min(Matching(rows, p, st))].quantity =
                         IF @ + delta < 0 THEN 0 ELSE @ + delta]
    ELSE Append(rows, Row(p, st, IF delta < 0 THEN 0 ELSE delta))

\* update_inventory with every spreadsheet call succeeding: the first row
\* with the key gets quantity + delta, and without such a row one is appended
UpdatedRows(rows, p, st, delta) ==
    IF Matching(rows, p, st) # {}
    THEN [rows EXCEPT ![Min(Matching(rows, p, st))].quantity = @ + delta]
    ELSE Append(rows, Row(p, st, delta))

\* update_inventory: an exception of the spreadsheet client is logged and
\* swallowed, the sheet staying as it was
update_inventory(rows, p, st, delta, fails) ==
    IF fails THEN rows ELSE UpdatedRows(rows, p, st, delta)

\* strftime("%d/%m/%Y"): the date in fields of fixed width, written as one
\* element
DateText(day) == <<day>>

\* strftime("%d/%m/%Y %H:%M:%S"): the date, a blank, the time of day
TimestampText(day) == DateText(day) \o <<" ", "H:M:S">>

\* str.startswith
StartsWith(s, prefix) ==
    Len(s) >= Len(prefix) /\ SubSeq(s, 1, Len(prefix)) = prefix

LogRow(day, action, p, st, qty, user, note) ==
    [timestamp |-> TimestampText(day), action |-> action, product |-> p, stock_type |-> st,
     quantity |-> qty, user |-> user, note |-> note]

\* a slip of log_action: the row inserted below the header, newest first
log_action_top(rows, day, action, p, qty, user, st, note) ==
    <<LogRow(day, action, p, st, qty, Username(user), note)>> \o rows

\* log_action with log_sheet.append_row succeeding
log_action(rows, day, action, p, qty, user, st, note) ==
    Append(rows, LogRow(day, action, p, st, qty, Username(user), note))

Msg(kind, body) == [kind |-> kind, body |-> body]

Upd(handler, u, arg) == [handler |-> handler, user |-> u, arg |-> arg]

\* what a handler did: raised = it ended by an exception it did not catch
Eff(raised, invWrite, logWrite, invBefore) ==
    [raised |-> raised, invWrite |-> invWrite, logWrite |-> logWrite,
     inv_before |-> invBefore]

NoWrite == Eff(FALSE, FALSE, FALSE, inv)

----------------------------------------------------------------------------
(* Handlers.                                                               *)

\* a slip of send_main_menu: an update that is a message gets nothing
send_main_menu_silent == <<>>

\* send_main_menu(update, context): the welcome text with the five buttons
send_main_menu == <<Msg("menu", <<>>)>>

\* /start.  The authorized branch calls send_main_menu(update) with one
\* argument of the two the function takes: the call raises TypeError.
start(u) ==
    /\ upd' = Upd("start", u, <<>>)
    /\ IF u \in AUTHORIZED_USERS
       THEN /\ reply' = <<>>
            /\ eff' = Eff(TRUE, FALSE, FALSE, inv)
       ELSE /\ reply' = <<Msg("otp_prompt", <<>>)>>
            /\ eff' = NoWrite
    /\ UNCHANGED <<AUTHORIZED_USERS, inv, log, today, nops>>

\* a slip of the comparison: the text as sent, not stripped
OtpMatchesUnstripped(t) == t = OTP_CODE

\* the comparison of the stripped message text with the passcode
OtpMatches(t) == Strip(t) = OTP_CODE

\* a slip of the grant: the set rebound to the new user alone
GrantedAlone(u) == {u}

\* AUTHORIZED_USERS.add(user_id)
Granted(u) == AUTHORIZED_USERS \cup {u}

\* a slip of otp_handler: no early return for a user already authorized
otp_handler_unguarded(u, t) ==
    /\ upd' = Upd("otp_handler", u, t)
    /\ eff' = NoWrite
    /\ IF OtpMatches(t)
       THEN /\ AUTHORIZED_USERS' = Granted(u)
            /\ reply' = <<Msg("login_ok", <<>>)>> \o send_main_menu
       ELSE /\ reply' = <<Msg("invalid_otp", <<>>)>>
            /\ UNCHANGED AUTHORIZED_USERS
    /\ UNCHANGED <<inv, log, today, nops>>

\* a text message that is not a command
otp_handler(u, t) ==
    /\ upd' = Upd("otp_handler", u, t)
    /\ eff' = NoWrite
    /\ IF u \in AUTHORIZED_USERS
       THEN /\ reply' = <<>>
            /\ UNCHANGED AUTHORIZED_USERS
       ELSE IF OtpMatches(t)
       THEN /\ AUTHORIZED_USERS' = Granted(u)
            /\ reply' = <<Msg("login_ok", <<>>)>> \o send_main_menu
       ELSE /\ reply' = <<Msg("invalid_otp", <<>>)>>
            /\ UNCHANGED AUTHORIZED_USERS
    /\ UNCHANGED <<inv, log, today, nops>>

\* the text button_handler puts in place of the menu for a selection
Prompt(d) ==
    CASE d = "menu_add"    -> Msg("prompt_add", <<>>)
      [] d = "menu_minus"  -> Msg("prompt_minus", <<>>)
      [] d = "menu_open"   -> Msg("prompt_open", <<>>)
      [] d = "menu_stock"  -> Msg("prompt_stock", <<>>)
      [] d = "menu_report" -> Msg("prompt_report", <<>>)
      [] OTHER             -> Msg("unknown_selection", <<>>)

\* a button press.  After the prompt, line 131 reads command_map, a name the
\* module never binds: NameError, for every selection.
button_handler(u, d) ==
    /\ upd' = Upd("button_handler", u, d)
    /\ reply' = <<Prompt(d)>>
    /\ eff' = Eff(TRUE, FALSE, FALSE, inv)
    /\ UNCHANGED <<AUTHORIZED_USERS, inv, log, today, nops>>

\* a slip of the body: the records as they were read before the update
\* handled last was written
WriteStale(u, action, p, st, delta, qty, note, ok, usage, f) ==
    /\ nops < MaxOps
    /\ nops' = nops + 1
    /\ inv' = update_inventory(eff.inv_before, p, st, delta, "inv" \in f)
    /\ IF "log" \in f
       THEN /\ log' = log
            /\ reply' = <<usage>>
       ELSE /\ log' = log_action(log, today, action, p, qty, u, st, note)
            /\ reply' = <<ok>>
    /\ eff' = Eff(FALSE, "inv" \notin f, "log" \notin f, inv)

\* the body of the three mutating commands after the arguments are parsed:
\* update_inventory, then log_action, then the confirmation; an exception of
\* log_action lands in the bare except, which replies with the usage text
Write(u, action, p, st, delta, qty, note, ok, usage, f) ==
    /\ nops < MaxOps
    /\ nops' = nops + 1
    /\ inv' = update_inventory(inv, p, st, delta, "inv" \in f)
    /\ IF "log" \in f
       THEN /\ log' = log
            /\ reply' = <<usage>>
       ELSE /\ log' = log_action(log, today, action, p, qty, u, st, note)
            /\ reply' = <<ok>>
    /\ eff' = Eff(FALSE, "inv" \notin f, "log" \notin f, inv)

\* the except branch of a command: only the usage text is sent
Usage(usage) ==
    /\ reply' = <<usage>>
    /\ eff' = NoWrite
    /\ UNCHANGED <<inv, log, nops>>

\* /add product qty [stock type]
add(u, args, f) ==
    /\ upd' = Upd("add", u, args)
    /\ IF Len(args) >= 2 /\ IsInt(args[2])
       THEN LET product    == args[1]
                qty        == IntOf(args[2])
                stock_type == IF Len(args) > 2 THEN args[3] ELSE "Loose"
            IN  Write(u, "Add", product, stock_type, qty, qty, <<>>,
                      Msg("added", <<qty, product, stock_type>>),
                      Msg("usage_add", <<>>), f)
       ELSE Usage(Msg("usage_add", <<>>))
    /\ UNCHANGED <<AUTHORIZED_USERS, today>>

\* /minus product qty [stock type]
minus(u, args, f) ==
    /\ upd' = Upd("minus", u, args)
    /\ IF Len(args) >= 2 /\ IsInt(args[2])
       THEN LET product    == args[1]
                qty        == IntOf(args[2])
                stock_type == IF Len(args) > 2 THEN args[3] ELSE "Loose"
            IN  Write(u, "Minus", product, stock_type, 0 - qty, qty, <<>>,
                      Msg("subtracted", <<qty, product, stock_type>>),
                      Msg("usage_minus", <<>>), f)
       ELSE Usage(Msg("usage_minus", <<>>))
    /\ UNCHANGED <<AUTHORIZED_USERS, today>>

\* ' '.join(context.args[3:]) or "Opened for singles"
NoteOf(args) ==
    IF Len(args) > 3
    THEN Join(SubSeq(args, 4, Len(args)))
    ELSE <<"Opened", "for", "singles">>

\* a slip of /open: the stock type read with a default, as /add reads it
open_product_default(u, args, f) ==
    /\ upd' = Upd("open", u, args)
    /\ IF Len(args) >= 2 /\ IsInt(args[2])
       THEN LET product    == args[1]
                qty        == IntOf(args[2])
                stock_type == IF Len(args) > 2 THEN args[3] ELSE "Loose"
                note       == NoteOf(args)
            IN  Write(u, "Open", product, stock_type, 0 - qty, qty, note,
                      Msg("opened", <<qty, product, stock_type, note>>),
                      Msg("usage_open", <<>>), f)
       ELSE Usage(Msg("usage_open", <<>>))
    /\ UNCHANGED <<AUTHORIZED_USERS, today>>

\* /open product qty stock_type [note]
open_product(u, args, f) ==
    /\ upd' = Upd("open", u, args)
    /\ IF Len(args) >= 3 /\ IsInt(args[2])
       THEN LET product    == args[1]
                qty        == IntOf(args[2])
                stock_type == args[3]
                note       == NoteOf(args)
            IN  Write(u, "Open", product, stock_type, 0 - qty, qty, note,
                      Msg("opened", <<qty, product, stock_type, note>>),
                      Msg("usage_open", <<>>), f)
       ELSE Usage(Msg("usage_open", <<>>))
    /\ UNCHANGED <<AUTHORIZED_USERS, today>>

\* the message of /stock for the rows the sheet holds
StockMsg(rows, args) ==
    IF Lower(args[1]) = "all"
    THEN Msg("stock_all",
             [i \in 1..Len(rows) |->
                 <<rows[i].product, rows[i].stock_type, rows[i].quantity>>])
    ELSE LET matches == SelectSeq(rows, LAMBDA r : r.product = args[1])
         IN  IF matches = <<>>
             THEN Msg("no_data", <<args[1]>>)
             ELSE Msg("stock",
                      <<args[1],
                        [i \in 1..Len(matches) |->
                            <<matches[i].stock_type, matches[i].quantity>>]>>)

\* a slip of /stock: a product without a row is given one, of quantity 0
stock_creating(u, args, f) ==
    /\ upd' = Upd("stock", u, args)
    /\ reply' = IF Len(args) >= 1 /\ "inv" \notin f
                THEN <<StockMsg(inv, args)>>
                ELSE <<Msg("usage_stock", <<>>)>>
    /\ eff' = NoWrite
    /\ inv' = IF Len(args) >= 1 /\ "inv" \notin f /\ StockMsg(inv, args).kind = "no_data"
              THEN Append(inv, Row(args[1], "Loose", 0))
              ELSE inv
    /\ UNCHANGED <<AUTHORIZED_USERS, log, today, nops>>

\* /stock product | /stock all
stock(u, args, f) ==
    /\ upd' = Upd("stock", u, args)
    /\ reply' = IF Len(args) >= 1 /\ "inv" \notin f
                THEN <<StockMsg(inv, args)>>
                ELSE <<Msg("usage_stock", <<>>)>>
    /\ eff' = NoWrite
    /\ UNCHANGED <<AUTHORIZED_USERS, inv, log, today, nops>>

\* a slip of the report: every row of the log, whatever its date
TodayLogsUnfiltered(rows, day) == rows

\* the rows of the log whose timestamp starts with the date given
TodayLogs(rows, day) ==
    SelectSeq(rows, LAMBDA r : StartsWith(r.timestamp, DateText(day)))

\* /report: not guarded by a try, an exception of the log sheet leaves it
report(u, f) ==
    /\ upd' = Upd("report", u, <<>>)
    /\ IF "log" \in f
       THEN /\ reply' = <<>>
            /\ eff' = Eff(TRUE, FALSE, FALSE, inv)
       ELSE /\ reply' = IF TodayLogs(log, today) = <<>>
                        THEN <<Msg("no_activity", <<>>)>>
                        ELSE <<Msg("report", <<today, TodayLogs(log, today)>>)>>
            /\ eff' = NoWrite
    /\ UNCHANGED <<AUTHORIZED_USERS, inv, log, today, nops>>

\* midnight in Asia/Singapore: datetime.now(SG_TIME) yields the next date
Tick ==
    /\ today < MaxDay
    /\ today' = today + 1
    /\ UNCHANGED <<AUTHORIZED_USERS, inv, log, upd, reply, eff, nops, flow>>

----------------------------------------------------------------------------
(* The guided flow of the specification, read off the selections a user    *)
(* makes: 0 Idle, 1 SelectingProduct, 2 SelectingStockType,                *)
(* 3 EnteringQuantity.  The handlers keep no such state (the only trace of *)
(* it is the comment at src/main.py:119); flow records what the user did,  *)
(* not what the program stored.                                            *)

Selected(u, d) ==
    CASE d \in {"menu_add", "menu_minus"} /\ u \in AUTHORIZED_USERS -> 1
      [] d = "product_A" /\ flow[u] = 1 -> 2
      [] d = "type_Loose" /\ flow[u] = 2 -> 3
      [] OTHER -> 0

----------------------------------------------------------------------------
(* The sheets as the process finds them, and the empty authorized set.     *)

InitInvs ==
    { <<>>,
      <<Row("A", "Loose", 1)>>,
      <<Row("B", "Loose", 3), Row("A", "Keep Sealed", 2), Row("A", "Loose", 0)>> }

InitWith(I) ==
    /\ AUTHORIZED_USERS = {}
    /\ inv \in I
    /\ log = <<>>
    /\ today = 0
    /\ upd = Upd("none", "none", <<>>)
    /\ reply = <<>>
    /\ eff = NoWrite
    /\ nops = 0
    /\ flow = [u \in Users |-> 0]

\* the updates of the users in U: texts in T, callback data in D, command
\* arguments in A, failing sheets in F
Dispatch(U, T, D, A, F) ==
    \/ \E u \in U : start(u) /\ UNCHANGED flow
    \/ \E u \in U, t \in T :
          otp_handler(u, t) /\ flow' = [flow EXCEPT ![u] = 0]
    \/ \E u \in U, d \in D :
          button_handler(u, d) /\ flow' = [flow EXCEPT ![u] = Selected(u, d)]
    \/ \E u \in U, args \in A, f \in F : add(u, args, f) /\ UNCHANGED flow
    \/ \E u \in U, args \in A, f \in F : minus(u, args, f) /\ UNCHANGED flow
    \/ \E u \in U, args \in A, f \in F : open_product(u, args, f) /\ UNCHANGED flow
    \/ \E u \in U, args \in StockArgs, f \in F : stock(u, args, f) /\ UNCHANGED flow
    \/ \E u \in U, f \in F : report(u, f) /\ UNCHANGED flow

\* the gate: two users, every text and selection, the spreadsheet answering
\* every call
NextGate == Dispatch(Users, Texts, CallbackData, FewArgs, {{}})

SpecGate == InitWith({<<>>}) /\ [][NextGate]_vars

\* the store: one user, every argument list, the spreadsheet answering every
\* call
NextStore == Dispatch({"u1"}, {OTP_CODE}, {"menu_add"}, StoreArgs, {{}})

SpecStore == InitWith(InitInvs) /\ [][NextStore]_vars

\* failing sheets: one user, calls of either sheet may raise
NextFaults == Dispatch({"u1"}, {OTP_CODE}, {"menu_add"}, FewArgs, Faults)

SpecFaults == InitWith(InitInvs) /\ [][NextFaults]_vars

\* the bot over several days: one user, the spreadsheet answering every call
NextClock == Dispatch({"u1"}, {OTP_CODE}, {"menu_add"}, FewArgs, {{}}) \/ Tick

SpecClock == InitWith({<<>>}) /\ [][NextClock]_vars

\* two users at the store, the spreadsheet answering every call.  The
\* polling loop of app.run_polling() hands every update it fetched to its
\* handler, one after the other: an update that can be handled is handled.
NextPair == Dispatch(Users, {OTP_CODE}, {"menu_add"}, FewArgs, {{}})

SpecPair == InitWith(InitInvs) /\ [][NextPair]_vars /\ WF_vars(NextPair)

----------------------------------------------------------------------------
(* Vocabulary of the properties.                                           *)

Commands == {"add", "minus", "open"}

\* the quantity the sheet stores for a key, 0 when it has no row for it
Stored(rows, p, st) ==
    IF Matching(rows, p, st) = {} THEN 0
    ELSE rows[Min(Matching(rows, p, st))].quantity

\* the quantities a /stock reply shows for a stock type
Reported(msg, st) ==
    IF msg.kind # "stock" THEN {}
    ELSE { msg.body[2][i][2] : i \in { j \in 1..Len(msg.body[2]) : msg.body[2][j][1] = st } }

Kinds(msgs) == { msgs[i].kind : i \in 1..Len(msgs) }

PromptKinds == {"prompt_add", "prompt_minus", "prompt_open", "prompt_stock",
                "prompt_report"}

ConfirmKinds == {"added", "subtracted", "opened"}

UsageOf(h) ==
    CASE h = "add" -> "usage_add" [] h = "minus" -> "usage_minus"
      [] h = "open" -> "usage_open"

\* the arguments miss the product, miss the qty or hold one that is no
\* integer, or, for /open, miss the stock type
ParseError(h, args) ==
    \/ Len(args) < 2
    \/ ~IsInt(args[2])
    \/ h = "open" /\ Len(args) < 3

AllProducts == {"A", "B", "C"}
AllStockTypes == STOCK_TYPES \cup {"Keep", "Sealed", "Bag"}

----------------------------------------------------------------------------
(* C1.  Every change of the inventory or of the log is made by a handler   *)
(* run for a user who is authorized at that moment.  The code does not     *)
(* check the set in add, minus or open: the property is violated.          *)
C1_ChangesOnlyByAuthorized ==
    [][ (inv' # inv \/ log' # log) => upd'.user \in AUTHORIZED_USERS ]_vars

(* C2, as claimed.  A text from an unauthorized user is granted if and     *)
(* only if it equals the passcode exactly.  Violated: the handler strips   *)
(* the text first.                                                         *)
C2_GrantedIffExactText ==
    [][ (upd'.handler = "otp_handler" /\ upd'.user \notin AUTHORIZED_USERS)
        => ((upd'.user \in AUTHORIZED_USERS') <=> (upd'.arg = OTP_CODE)) ]_vars

(* C2, amended.  A text from an unauthorized user is granted (the user is  *)
(* added to the set, the reply is the login message and the menu) if and   *)
(* only if the text without leading and trailing whitespace equals the     *)
(* passcode, case-sensitively; any other text is denied and leaves the set *)
(* unchanged.                                                              *)
C2_GrantedIffStrippedText ==
    [][ (upd'.handler = "otp_handler" /\ upd'.user \notin AUTHORIZED_USERS)
        => IF Strip(upd'.arg) = OTP_CODE
           THEN /\ AUTHORIZED_USERS' = AUTHORIZED_USERS \cup {upd'.user}
                /\ reply'[1].kind = "login_ok"
           ELSE /\ AUTHORIZED_USERS' = AUTHORIZED_USERS
                /\ Kinds(reply') = {"invalid_otp"} ]_vars

\* a user was granted on a text that is not the passcode as written
C2_Witness ==
    /\ upd.handler = "otp_handler"
    /\ upd.arg # OTP_CODE
    /\ upd.user \in AUTHORIZED_USERS
    /\ "login_ok" \in Kinds(reply)

(* C3.  The authorized set never loses a member, whatever update is        *)
(* handled, and a text that strips to the passcode is granted in every     *)
(* state, however many attempts were denied before.                        *)
C3_AuthorizationMonotonic ==
    [][ /\ AUTHORIZED_USERS \subseteq AUTHORIZED_USERS'
        /\ (upd'.handler = "otp_handler" /\ Strip(upd'.arg) = OTP_CODE)
              => upd'.user \in AUTHORIZED_USERS' ]_vars

\* one user is granted while the other is already authorized
C3_Witness ==
    /\ AUTHORIZED_USERS = Users
    /\ upd.handler = "otp_handler"
    /\ "login_ok" \in Kinds(reply)

(* C4.  A menu selection by a user who is not authorized leaves the flow   *)
(* in Idle and presents no action prompt.  The code does not check the set *)
(* in button_handler and shows the prompt: the property is violated.       *)
C4_NoPromptForUnauthorized ==
    [][ (upd'.handler = "button_handler" /\ upd'.user \notin AUTHORIZED_USERS)
        => /\ flow'[upd'.user] = 0
           /\ Kinds(reply') \cap PromptKinds = {} ]_vars

(* C5.  add, minus and open with arguments that do not parse write neither *)
(* sheet and reply with the usage text of the command.                     *)
C5_ParseErrorWritesNothing ==
    [][ (upd'.handler \in Commands /\ ParseError(upd'.handler, upd'.arg))
        => /\ inv' = inv
           /\ log' = log
           /\ Kinds(reply') = {UsageOf(upd'.handler)}
           /\ Len(reply') = 1 ]_vars

\* /open without a stock type was answered with the usage text, after a
\* command that did write
C5_Witness ==
    /\ upd.handler = "open"
    /\ Len(upd.arg) = 2
    /\ IsInt(upd.arg[2])
    /\ Kinds(reply) = {"usage_open"}
    /\ log # <<>>

(* C6.  A command appends a log entry if and only if it applied its delta  *)
(* to the inventory, and confirms only when it did both.  The code         *)
(* swallows a failure of the inventory sheet and goes on to log and to     *)
(* confirm: the property is violated.                                      *)
C6_InventoryAndLogAgree ==
    [][ upd'.handler \in Commands
        => /\ (log' # log) <=> (inv' # inv)
           /\ (Kinds(reply') \cap ConfirmKinds # {}) => (inv' # inv /\ log' # log) ]_vars

(* C7.  After add(product, qty, stockType), for a stock type the usage     *)
(* text names or none (Loose), stock(product) shows for that stock type    *)
(* the quantity stored before plus qty.  A stock type of two words reaches *)
(* the handler as two arguments, and the quantity is stored under the      *)
(* first word: the property is violated.                                   *)
C7_AddThenStock ==
    [][ \A st \in STOCK_TYPES :
          ( /\ upd'.handler = "add"
            /\ ~ParseError("add", upd'.arg)
            /\ \/ upd'.arg = ArgsOf(upd'.arg[1], upd'.arg[2], st)
               \/ Len(upd'.arg) = 2 /\ st = "Loose" )
          => Reported(StockMsg(inv', <<upd'.arg[1]>>), st)
                = { Stored(inv, upd'.arg[1], st) + IntOf(upd'.arg[2]) } ]_vars

(* C8.  minus(product, qty, stockType) followed by add with the same       *)
(* arguments leaves every key of the inventory with the quantity it had    *)
(* before the minus, a key without a row counting as 0.                    *)
C8_MinusThenAddRestores ==
    [][ ( /\ upd.handler = "minus"
          /\ ~ParseError("minus", upd.arg)
          /\ upd'.handler = "add"
          /\ upd'.arg = upd.arg )
        => \A p \in AllProducts, st \in AllStockTypes :
              Stored(inv', p, st) = Stored(eff.inv_before, p, st) ]_vars

\* a minus and then an add of the same quantity on a key that had no row
C8_Witness ==
    /\ upd.handler = "add"
    /\ Len(log) >= 2
    /\ log[Len(log) - 1].action = "Minus"
    /\ log[Len(log)].action = "Add"
    /\ log[Len(log)].stock_type = "Keep"
    /\ log[Len(log) - 1].stock_type = "Keep"
    /\ Stored(inv, "A", "Keep") = 0
    /\ Matching(inv, "A", "Keep") # {}

(* C9.  A user who is authorized and has selected an action kind, a        *)
(* product and a stock type, and then sends a text that parses as an       *)
(* integer, gets one commit: one log entry, the inventory changed, a       *)
(* confirmation, the flow back in Idle.  The code has no such flow:        *)
(* button_handler stores nothing and otp_handler returns at once for an    *)
(* authorized user: the property is violated.                              *)
C9_FlowCommits ==
    [][ ( /\ upd'.handler = "otp_handler"
          /\ flow[upd'.user] = 3
          /\ IsInt(upd'.arg) )
        => /\ Len(log') = Len(log) + 1
           /\ inv' # inv
           /\ reply' # <<>>
           /\ flow'[upd'.user] = 0 ]_vars

(* C10.  Every log entry holds a quantity >= 0.  The code logs the qty     *)
(* argument as parsed, sign included: the property is violated.            *)
C10_LogQuantityNonNegative ==
    \A i \in 1..Len(log) : log[i].quantity >= 0

\* the stock type a command reads from its arguments, and the delta it applies
StockTypeOf(args) == IF Len(args) > 2 THEN args[3] ELSE "Loose"

DeltaOf(h, args) == IF h = "add" THEN IntOf(args[2]) ELSE 0 - IntOf(args[2])

(* C11.  A command whose delta is negative stores the quantity before plus *)
(* the delta, below zero when the delta is the larger: on a key without a  *)
(* row it appends a row holding exactly the delta, and on a key with a row *)
(* the row holds the negative result.  Nothing is clamped at zero.         *)
C11_NegativeStoredAsIs ==
    [][ ( /\ upd'.handler \in Commands
          /\ ~ParseError(upd'.handler, upd'.arg)
          /\ DeltaOf(upd'.handler, upd'.arg) < 0 )
        => LET p     == upd'.arg[1]
               st    == StockTypeOf(upd'.arg)
               delta == DeltaOf(upd'.handler, upd'.arg)
           IN  IF Matching(inv, p, st) = {}
               THEN inv' = Append(inv, Row(p, st, delta))
               ELSE /\ Len(inv') = Len(inv)
                    /\ Stored(inv', p, st) = Stored(inv, p, st) + delta ]_vars

\* a minus on a key that had no row left a row with the negative quantity
C11_Witness ==
    /\ upd.handler = "minus"
    /\ ~ParseError("minus", upd.arg)
    /\ Matching(eff.inv_before, upd.arg[1], StockTypeOf(upd.arg)) = {}
    /\ Stored(inv, upd.arg[1], StockTypeOf(upd.arg)) = 0 - IntOf(upd.arg[2])
    /\ Stored(inv, upd.arg[1], StockTypeOf(upd.arg)) < 0

\* the delta a log entry stands for
LogDelta(r) == IF r.action = "Add" THEN r.quantity ELSE 0 - r.quantity

\* the last two commands were written by two different users to one key, the
\* second one by the handler that ran last
TwoUsersOneKey ==
    /\ upd.handler \in Commands
    /\ eff.logWrite
    /\ Len(log) >= 2
    /\ log[Len(log)].user # log[Len(log) - 1].user
    /\ log[Len(log)].product = log[Len(log) - 1].product
    /\ log[Len(log)].stock_type = log[Len(log) - 1].stock_type

\* the quantity of that key holds the delta of one of the two commands only
LostUpdate ==
    /\ TwoUsersOneKey
    /\ LET a      == log[Len(log) - 1]
           b      == log[Len(log)]
           before == Stored(eff.inv_before, b.product, b.stock_type)
           now    == Stored(inv, b.product, b.stock_type)
       IN  /\ now # before + LogDelta(b)
           /\ now \in {before, before - LogDelta(a) + LogDelta(b)}

ActionOf(h) ==
    CASE h = "add" -> "Add" [] h = "minus" -> "Minus" [] h = "open" -> "Open"

(* C13.  The log only grows, at its end, and by one entry for each add,    *)
(* minus or open that is confirmed: the entries it held stay as they were  *)
(* and in place, the new last entry has the action kind of the command     *)
(* (Add, Minus, Open), its product, stock type and qty, and for open the   *)
(* note given after the stock type or, without one, the fixed default.     *)
(* Every other step leaves the log as it was.                              *)
C13_LogAppendOnly ==
    [][ IF upd'.handler \in Commands /\ Kinds(reply') \cap ConfirmKinds # {}
        THEN /\ Len(log') = Len(log) + 1
             /\ SubSeq(log', 1, Len(log)) = log
             /\ log'[Len(log')].action = ActionOf(upd'.handler)
             /\ log'[Len(log')].product = upd'.arg[1]
             /\ log'[Len(log')].stock_type = StockTypeOf(upd'.arg)
             /\ log'[Len(log')].quantity = IntOf(upd'.arg[2])
             /\ log'[Len(log')].user = upd'.user
             /\ upd'.handler = "open"
                   => log'[Len(log')].note =
                         IF Len(upd'.arg) > 3
                         THEN SubSeq(upd'.arg, 4, Len(upd'.arg))
                         ELSE <<"Opened", "for", "singles">>
        ELSE log' = log ]_vars

\* an open without a note was logged after an open with one
C13_Witness ==
    /\ upd.handler = "open"
    /\ Len(upd.arg) = 3
    /\ Len(log) = 2
    /\ log[1].action = "Open"
    /\ log[1].note = <<"gift">>
    /\ log[2].action = "Open"
    /\ log[2].note = <<"Opened", "for", "singles">>

(* C14.  A text from a user who is already authorized is not a passcode    *)
(* attempt: the authorized set, the inventory and the log stay as they     *)
(* were, and neither the login message nor the invalid-passcode message    *)
(* (nor anything else) is sent, whatever the text.                         *)
C14_AuthorizedTextIgnored ==
    [][ (upd'.handler = "otp_handler" /\ upd'.user \in AUTHORIZED_USERS)
        => /\ AUTHORIZED_USERS' = AUTHORIZED_USERS
           /\ inv' = inv
           /\ log' = log
           /\ Kinds(reply') \cap {"login_ok", "invalid_otp"} = {}
           /\ reply' = <<>> ]_vars

\* an authorized user sent a text that is not the passcode and got no reply,
\* with the inventory and the log holding something
C14_Witness ==
    /\ upd.handler = "otp_handler"
    /\ upd.user \in AUTHORIZED_USERS
    /\ ~OtpMatches(upd.arg)
    /\ reply = <<>>
    /\ inv # <<>>
    /\ log # <<>>

\* the date a log entry was written on
DateOf(r) == r.timestamp[1]

(* C15.  /report on a log of any mix of dates answers with the entries     *)
(* whose date is the current date and no other, one line for each, in the  *)
(* order of the log; when the log holds no entry of the current date it    *)
(* answers that no activity was logged.                                    *)
C15_ReportIsToday ==
    [][ (upd'.handler = "report" /\ today' = today)
        => LET wanted == { i \in 1..Len(log) : DateOf(log[i]) = today }
           IN  /\ Len(reply') = 1
               /\ IF wanted = {}
                  THEN reply'[1].kind = "no_activity"
                  ELSE /\ reply'[1].kind = "report"
                       /\ Len(reply'[1].body[2]) = Cardinality(wanted)
                       /\ \A k \in 1..Len(reply'[1].body[2]) :
                             \E i \in wanted :
                                /\ reply'[1].body[2][k] = log[i]
                                /\ Cardinality({ j \in wanted : j < i }) = k - 1 ]_vars

\* a report showed the entry of the current date and left out an older one
C15_Witness ==
    /\ upd.handler = "report"
    /\ reply # <<>>
    /\ reply[1].kind = "report"
    /\ reply[1].body[1] = today
    /\ Len(log) = 2
    /\ DateOf(log[1]) < today
    /\ DateOf(log[2]) = today
    /\ reply[1].body[2] = <<log[2]>>

\* how many of the messages sent are the main menu
Menus(msgs) == Cardinality({ i \in 1..Len(msgs) : msgs[i].kind = "menu" })

(* C16.  A passcode attempt by a user who is not authorized gets the main  *)
(* menu once, after the login message, when it is granted, and gets no     *)
(* menu when it is denied.                                                 *)
C16_MenuOnceOnGrant ==
    [][ (upd'.handler = "otp_handler" /\ upd'.user \notin AUTHORIZED_USERS)
        => IF upd'.user \in AUTHORIZED_USERS'
           THEN /\ Menus(reply') = 1
                /\ reply'[Len(reply')].kind = "menu"
                /\ reply'[1].kind = "login_ok"
           ELSE /\ Menus(reply') = 0
                /\ reply' # <<>> ]_vars

\* the passcode as written was granted: the login message, then the menu
C16_Witness ==
    /\ upd.handler = "otp_handler"
    /\ upd.arg = OTP_CODE
    /\ Len(reply) = 2
    /\ reply[1].kind = "login_ok"
    /\ reply[2].kind = "menu"

(* C17.  /stock (with a product, with "all", without an argument) and      *)
(* /report leave the inventory, the log and the authorized set as they     *)
(* were; /start, a menu selection and a text message leave the inventory   *)
(* and the log as they were.  This holds also when a sheet fails to        *)
(* answer.                                                                 *)
C17_ReadOnlyHandlers ==
    [][ /\ upd'.handler \in {"stock", "report"}
           => /\ inv' = inv
              /\ log' = log
              /\ AUTHORIZED_USERS' = AUTHORIZED_USERS
        /\ upd'.handler \in {"start", "button_handler", "otp_handler"}
           => /\ inv' = inv
              /\ log' = log ]_vars

\* /stock for a product without a row answered "no data", the sheets
\* holding rows of other commands
C17_Witness ==
    /\ upd.handler = "stock"
    /\ Len(reply) = 1
    /\ reply[1].kind = "no_data"
    /\ inv # <<>>
    /\ log # <<>>
    /\ AUTHORIZED_USERS # {}

\* no two rows of the sheet hold the same (product, stock type)
UniqueKeys(rows) ==
    \A i, j \in 1..Len(rows) :
       (rows[i].product = rows[j].product /\ rows[i].stock_type = rows[j].stock_type)
          => i = j

(* C18.  From an inventory without two rows of one key, every step leaves  *)
(* an inventory without two rows of one key.  A command whose key has a    *)
(* row changes that row in place and adds none; a command whose key has no *)
(* row appends one row for it.  No step removes a row or changes the key   *)
(* of one.                                                                 *)
C18_KeysStayUnique ==
    [][ /\ UniqueKeys(inv) => UniqueKeys(inv')
        /\ Len(inv') >= Len(inv)
        /\ \A i \in 1..Len(inv) :
              /\ inv'[i].product = inv[i].product
              /\ inv'[i].stock_type = inv[i].stock_type
        /\ (upd'.handler \in Commands /\ ~ParseError(upd'.handler, upd'.arg))
              => IF Matching(inv, upd'.arg[1], StockTypeOf(upd'.arg)) # {}
                 THEN Len(inv') = Len(inv)
                 ELSE /\ Len(inv') = Len(inv) + 1
                      /\ inv'[Len(inv')].product = upd'.arg[1]
                      /\ inv'[Len(inv')].stock_type = StockTypeOf(upd'.arg) ]_vars

\* one command changed a row in place and another appended a row for a key
\* of the same product
C18_Witness ==
    /\ UniqueKeys(inv)
    /\ Len(inv) = 4
    /\ nops = 2
    /\ Stored(inv, "A", "Loose") # 0
    /\ Matching(inv, "A", "Keep") # {}
    /\ Matching(inv, "A", "Keep Sealed") # {}

(* C19.  A command changes the row of its own key and no other: every row  *)
(* the sheet held keeps its quantity unless it is the row of the command's *)
(* product and stock type, rows of the same product with another stock     *)
(* type included, and the number of rows stays or grows by one.  The key   *)
(* is the one the handler reads from its arguments.                        *)
C19_OnlyOwnKeyTouched ==
    [][ (upd'.handler \in Commands /\ ~ParseError(upd'.handler, upd'.arg))
        => /\ Len(inv') - Len(inv) \in {0, 1}
           /\ \A i \in 1..Len(inv) :
                 \/ inv'[i] = inv[i]
                 \/ /\ inv[i].product = upd'.arg[1]
                    /\ inv[i].stock_type = StockTypeOf(upd'.arg)
           /\ \A p \in AllProducts, st \in AllStockTypes :
                 (p # upd'.arg[1] \/ st # StockTypeOf(upd'.arg))
                    => Stored(inv', p, st) = Stored(inv, p, st) ]_vars

\* a command on (A, Loose) changed that row, below rows of another product
\* and of the same product with another stock type, which kept their quantity
C19_Witness ==
    /\ upd.handler \in Commands
    /\ ~ParseError(upd.handler, upd.arg)
    /\ StockTypeOf(upd.arg) = "Loose"
    /\ Len(inv) = 3
    /\ Len(eff.inv_before) = 3
    /\ inv[3] # eff.inv_before[3]
    /\ inv[1] = eff.inv_before[1]
    /\ inv[2] = eff.inv_before[2]
    /\ inv[2].product = inv[3].product

(* C20.  The entry points of the menu end without an error: /start from an *)
(* authorized user shows the main menu, /start from any other user asks    *)
(* for the passcode, every button selection (the five of the menu or any   *)
(* other value) ends with its reply sent; none of them changes the         *)
(* authorized set.  The code calls send_main_menu(update) with one of its  *)
(* two arguments in start (TypeError) and reads the unbound name           *)
(* command_map at the end of button_handler (NameError): the property is   *)
(* violated.                                                               *)
C20_MenuEntryPointsComplete ==
    [][ /\ upd'.handler \in {"start", "button_handler"}
           => /\ ~eff'.raised
              /\ reply' # <<>>
              /\ AUTHORIZED_USERS' = AUTHORIZED_USERS
        /\ upd'.handler = "start"
           => Kinds(reply') = IF upd'.user \in AUTHORIZED_USERS
                              THEN {"menu"} ELSE {"otp_prompt"} ]_vars

====
